---- MODULE Spec2Model ----
(***************************************************************************)
(* Model of the wellness assistant's query pipeline:                       *)
(*   - WellnessOrchestrator (orchestrator.py): identify_intent,            *)
(*     filter_intent_safety, execute_agent_query, process_wellness_query   *)
(*   - MemoryManager (short_memory.py) and ConversationMemory (schemas.py) *)
(*   - the two HTTP handlers wellness_query (agents/.../main.py, main.py)  *)
(* Text is modelled by TLA+ strings: substring tests, lower-casing and     *)
(* joins are computed character by character as the Python code does.      *)
(***************************************************************************)
EXTENDS Integers, Sequences, FiniteSets, TLC

VARIABLES
    memory_store,   \* MemoryManager.memory_store: entries in dict (insertion) order
    requests,       \* one record per in-flight process_wellness_query coroutine
    started,        \* number of requests received so far
    last_op,        \* the last MemoryManager method called directly, with its return value
    http,           \* the last HTTP exchange of the wellness_query handlers
    insert_log,     \* history: the user ids that have an entry, in the order the
                    \* entries were created
    default_max_messages,   \* the default of the field ConversationMemory.max_messages
    conv,           \* a ConversationMemory constructed directly, with the history
                    \* of the messages added to it
    call            \* the last direct call of a method of ResponseSynthesizer or of
                    \* identify_intent / filter_intent_safety: arguments and return value

\* the variables that the pipeline, the store and the HTTP handlers leave alone
aux == <<default_max_messages, conv, call>>

vars == <<memory_store, requests, started, last_op, http, insert_log, aux>>

-----------------------------------------------------------------------------
(* Bounds of the model *)

\* total number of orchestrator requests received in a behaviour
MaxRequests == 3

\* total number of requests received in a behaviour of the concurrent Spec
MaxConcurrentRequests == 2

\* total number of direct MemoryManager calls in a behaviour of SpecStore
MaxStoreOps == 4

\* MemoryManager(max_users=...) as configured in the model (default 100)
max_users == 2

\* ConversationMemory.max_messages as configured in the model (default 20)
max_messages == 2

-----------------------------------------------------------------------------
(* Text helpers: str.lower(), the `in` substring test, "\n".join *)

None == "None"

LowerChar(c) ==
    CASE c = "A" -> "a" [] c = "B" -> "b" [] c = "C" -> "c" [] c = "D" -> "d"
      [] c = "E" -> "e" [] c = "F" -> "f" [] c = "G" -> "g" [] c = "H" -> "h"
      [] c = "I" -> "i" [] c = "J" -> "j" [] c = "K" -> "k" [] c = "L" -> "l"
      [] c = "M" -> "m" [] c = "N" -> "n" [] c = "O" -> "o" [] c = "P" -> "p"
      [] c = "Q" -> "q" [] c = "R" -> "r" [] c = "S" -> "s" [] c = "T" -> "t"
      [] c = "U" -> "u" [] c = "V" -> "v" [] c = "W" -> "w" [] c = "X" -> "x"
      [] c = "Y" -> "y" [] c = "Z" -> "z" [] OTHER -> c

RECURSIVE Lower(_)
Lower(s) ==
    IF Len(s) = 0 THEN ""
    ELSE LowerChar(SubSeq(s, 1, 1)) \o Lower(SubSeq(s, 2, Len(s)))

\* Python's `k in s` for strings
Contains(s, k) ==
    \E i \in 1..(Len(s) - Len(k) + 1) : SubSeq(s, i, i + Len(k) - 1) = k

\* any(k in s for k in ks), ks a sequence of strings
ContainsAny(s, ks) == \E j \in 1..Len(ks) : Contains(s, ks[j])

\* s[-n:] for a list (Python: s[-0:] is the whole list)
LastN(s, n) ==
    IF n = 0 \/ Len(s) <= n THEN s ELSE SubSeq(s, Len(s) - n + 1, Len(s))

RECURSIVE Join(_, _)
Join(sep, lines) ==
    IF Len(lines) = 0 THEN ""
    ELSE IF Len(lines) = 1 THEN lines[1]
    ELSE lines[1] \o sep \o Join(sep, Tail(lines))

\* the number of elements of a sequence of booleans that are TRUE
RECURSIVE CountTrue(_)
CountTrue(bs) ==
    IF Len(bs) = 0 THEN 0
    ELSE (IF Head(bs) THEN 1 ELSE 0) + CountTrue(Tail(bs))

-----------------------------------------------------------------------------
(* schemas.py: IntentType *)

SYMPTOM == "symptom"
LIFESTYLE == "lifestyle"
DIET == "diet"
FITNESS == "fitness"
GENERAL == "general"

\* declaration order of the enum members
IntentType == <<SYMPTOM, LIFESTYLE, DIET, FITNESS, GENERAL>>

IntentSet == {IntentType[i] : i \in 1..Len(IntentType)}

-----------------------------------------------------------------------------
(* orchestrator.py: WellnessOrchestrator.__init__, identify_intent *)

intent_keywords ==
    [symptom |-> <<"symptom", "ache", "pain", "tired", "fatigue", "sick",
                   "illness", "feel", "hurt", "sore", "dizzy", "nausea",
                   "cough", "fever", "headache">>,
     lifestyle |-> <<"sleep", "stress", "anxiety", "routine", "habit", "relax",
                     "tired", "fatigue", "meditation", "work-life", "balance",
                     "energy", "mood", "mental">>,
     diet |-> <<"food", "eat", "diet", "nutrition", "meal", "cook",
                "recipe", "calorie", "protein", "healthy", "weight",
                "appetite", "digest", "stomach">>,
     fitness |-> <<"exercise", "workout", "gym", "run", "walk", "strength",
                   "cardio", "fit", "activity", "sport", "train", "muscle",
                   "flexibility", "endurance">>]

\* intent_scores after the two nested loops of identify_intent
intent_scores(query) ==
    LET query_lower == Lower(query)
    IN  [intent \in IntentSet |->
            IF intent \in DOMAIN intent_keywords
            THEN CountTrue([j \in 1..Len(intent_keywords[intent]) |->
                               Contains(query_lower, intent_keywords[intent][j])])
            ELSE 0]

\* classification by the first intent, in declaration order, that has any
\* keyword in the query (no scores)
identify_intent_FirstHit(query) ==
    LET scores == intent_scores(query)
        hit == {i \in 1..Len(IntentType) : scores[IntentType[i]] > 0}
    IN  IF hit = {} THEN GENERAL
        ELSE IntentType[CHOOSE i \in hit : \A j \in hit : i <= j]

\* max(intent_scores, key=intent_scores.get): the first key, in the dict's
\* (enum declaration) order, that carries the greatest score
identify_intent(query) ==
    LET scores == intent_scores(query)
        best == CHOOSE i \in 1..Len(IntentType) :
                    /\ \A j \in 1..Len(IntentType) :
                          scores[IntentType[j]] <= scores[IntentType[i]]
                    /\ \A j \in 1..(i - 1) :
                          scores[IntentType[j]] < scores[IntentType[i]]
        max_intent == IntentType[best]
    IN  IF scores[max_intent] = 0 THEN GENERAL ELSE max_intent

-----------------------------------------------------------------------------
(* orchestrator.py: filter_intent_safety *)

critical_symptoms ==
    <<"chest pain", "difficulty breathing", "severe bleeding",
      "loss of consciousness", "seizure", "suicidal", "harm">>

CRITICAL_WARNING == "CRITICAL: Seek emergency medical care immediately (911)"

\* the phrase test made for every intent
filter_intent_safety_AnyIntent(intent, query) ==
    IF ContainsAny(Lower(query), critical_symptoms)
    THEN [is_safe |-> FALSE, warning |-> CRITICAL_WARNING]
    ELSE [is_safe |-> TRUE, warning |-> ""]

filter_intent_safety(intent, query) ==
    IF intent = SYMPTOM /\ ContainsAny(Lower(query), critical_symptoms)
    THEN [is_safe |-> FALSE, warning |-> CRITICAL_WARNING]
    ELSE [is_safe |-> TRUE, warning |-> ""]

-----------------------------------------------------------------------------
(* schemas.py: ConversationMemory *)

\* ConversationMemory(user_id=user_id): empty log, empty context map, the
\* default max_messages
ConversationMemory(user_id) ==
    [user_id |-> user_id, messages |-> <<>>, context |-> [k \in {} |-> ""],
     max_messages |-> default_max_messages]

\* ConversationMemory.add_message
add_message(memory, role, content) ==
    LET appended == Append(memory.messages, [role |-> role, content |-> content])
    IN  [memory EXCEPT !.messages =
            IF Len(appended) > memory.max_messages
            THEN LastN(appended, memory.max_messages)
            ELSE appended]

\* get_context without the [-5:] slice
get_context_WholeLog(memory) ==
    Join("\n", [i \in 1..Len(memory.messages) |->
                    memory.messages[i].role \o ": " \o memory.messages[i].content])

\* ConversationMemory.get_context
get_context(memory) ==
    LET last5 == LastN(memory.messages, 5)
        formatted == [i \in 1..Len(last5) |->
                         last5[i].role \o ": " \o last5[i].content]
    IN  Join("\n", formatted)

-----------------------------------------------------------------------------
(* short_memory.py: MemoryManager.  memory_store is a dict; a Python dict  *)
(* iterates in insertion order, a deleted key loses its place and a        *)
(* re-inserted key goes to the end: the model keeps the entries as a       *)
(* sequence in that order.                                                 *)

Keys(store) == {store[i].user_id : i \in 1..Len(store)}

IndexOf(store, user_id) == CHOOSE i \in 1..Len(store) : store[i].user_id = user_id

Entry(store, user_id) == store[IndexOf(store, user_id)]

\* del self.memory_store[key]
DelKey(store, key) == SelectSeq(store, LAMBDA e : e.user_id # key)

\* get_or_create_memory as a least-recently-used cache: a hit moves the
\* entry to the end of the dict
get_or_create_memory_RefreshOnAccess(store, user_id) ==
    IF user_id \notin Keys(store)
    THEN LET oldest_key == store[1].user_id
             room == IF Len(store) >= max_users THEN DelKey(store, oldest_key)
                     ELSE store
         IN  Append(room, ConversationMemory(user_id))
    ELSE Append(DelKey(store, user_id), Entry(store, user_id))

\* MemoryManager.get_or_create_memory: the store afterwards (the returned
\* ConversationMemory is Entry(store', user_id))
get_or_create_memory(store, user_id) ==
    IF user_id \notin Keys(store)
    THEN LET oldest_key == store[1].user_id        \* next(iter(self.memory_store))
             room == IF Len(store) >= max_users THEN DelKey(store, oldest_key)
                     ELSE store
         IN  Append(room, ConversationMemory(user_id))
    ELSE store

\* memory.<method>(...) on the object get_or_create_memory returned
WithEntry(store, user_id, memory) ==
    [store EXCEPT ![IndexOf(store, user_id)] = memory]

\* MemoryManager.add_user_message
add_user_message(store, user_id, message) ==
    LET s1 == get_or_create_memory(store, user_id)
    IN  WithEntry(s1, user_id, add_message(Entry(s1, user_id), "user", message))

\* MemoryManager.add_assistant_message
add_assistant_message(store, user_id, message) ==
    LET s1 == get_or_create_memory(store, user_id)
    IN  WithEntry(s1, user_id, add_message(Entry(s1, user_id), "assistant", message))

\* MemoryManager.get_conversation_context: the store afterwards and the value returned
get_conversation_context(store, user_id) ==
    LET s1 == get_or_create_memory(store, user_id)
    IN  [store |-> s1, ret |-> get_context(Entry(s1, user_id))]

\* dict.update(other) on maps kept as functions from keys to values
DictUpdate(d, other) ==
    [k \in (DOMAIN d) \cup (DOMAIN other) |->
        IF k \in DOMAIN other THEN other[k] ELSE d[k]]

\* MemoryManager.update_user_context
update_user_context(store, user_id, context) ==
    LET s1 == get_or_create_memory(store, user_id)
        memory == Entry(s1, user_id)
    IN  WithEntry(s1, user_id,
                  [memory EXCEPT !.context = DictUpdate(memory.context, context)])

\* MemoryManager.clear_memory
clear_memory(store, user_id) ==
    IF user_id \in Keys(store) THEN DelKey(store, user_id) ELSE store

\* MemoryManager.get_memory_stats: the store afterwards and the dict returned
get_memory_stats(store, user_id) ==
    LET s1 == get_or_create_memory(store, user_id)
        memory == Entry(s1, user_id)
    IN  [store |-> s1,
         ret |-> [user_id |-> user_id,
                  message_count |-> Len(memory.messages),
                  context_keys |-> DOMAIN memory.context,
                  last_message |-> IF Len(memory.messages) > 0
                                   THEN memory.messages[Len(memory.messages)]
                                   ELSE None]]

-----------------------------------------------------------------------------
(* Inputs *)

\* slots for process_wellness_query coroutines that are in flight together
ReqIds == {1, 2}

Users == {"u1", "u2"}

\* queries sent through the orchestrator
Queries ==
    {"I have chest pain",
     "I feel tired and have a headache",
     "tell me about vacations",
     "what should I eat",
     "help me sleep better",
     "plan a gym workout"}

\* queries of the requests that run concurrently
ConcurrentQueries ==
    {"I have chest pain",
     "I feel tired and have a headache",
     "tell me about vacations"}

\* WellnessQuery.intent as supplied by the caller
CallerIntents == {None} \cup IntentSet

\* identify_intent and filter_intent_safety tabulated over the inputs of the
\* model (they are pure; the tables are evaluated once)
identify_intent_of == [q \in Queries |-> identify_intent(q)]

filter_intent_safety_of ==
    [i \in IntentSet, q \in Queries |-> filter_intent_safety(i, q)]

-----------------------------------------------------------------------------
(* The four guidance generators (symptom_agent.py, lifestyle_agent.py,     *)
(* diet_agent.py, fitness_agent.py).  Confidence is kept in hundredths.    *)

assess_symptoms == "assess_symptoms"
analyze_lifestyle == "analyze_lifestyle"
provide_nutrition_guidance == "provide_nutrition_guidance"
provide_fitness_guidance == "provide_fitness_guidance"

Generators ==
    {assess_symptoms, analyze_lifestyle, provide_nutrition_guidance,
     provide_fitness_guidance}

agent_name(g) ==
    CASE g = assess_symptoms -> "Symptom Assessment"
      [] g = analyze_lifestyle -> "Lifestyle Coach"
      [] g = provide_nutrition_guidance -> "Nutrition Guide"
      [] g = provide_fitness_guidance -> "Fitness Coach"

agent_confidence(g) ==
    CASE g = assess_symptoms -> 85
      [] g = analyze_lifestyle -> 82
      [] g = provide_nutrition_guidance -> 80
      [] g = provide_fitness_guidance -> 81

\* The reply of the language model: free text without bullet lines, from
\* which extract_recommendations extracts nothing.
LLM_CONTENT == "Rest, drink water and keep a regular routine."

\* A coroutine object that gather has wrapped in a task and that has not finished
PendingTask(g) == [fn |-> g, state |-> "pending", type |-> "coroutine"]

\* The ways one generator call can settle: the dict returned by the try
\* branch, the dict returned by the except branch, or an exception raised
\* before the try (create_*_agent()), which gather(return_exceptions=True)
\* hands back as the result.
GeneratorOutcomes(g) ==
    { [fn |-> g, state |-> "done", type |-> "dict", success |-> TRUE,
       agent_name |-> agent_name(g), content |-> LLM_CONTENT,
       confidence |-> agent_confidence(g), recommendations |-> <<>>],
      [fn |-> g, state |-> "done", type |-> "dict", success |-> FALSE,
       agent_name |-> agent_name(g), error |-> "upstream error"],
      [fn |-> g, state |-> "done", type |-> "exception"] }

OutcomeKind(outcome) ==
    IF outcome.type = "exception" THEN "raised"
    ELSE IF outcome.success THEN "succeeded" ELSE "failed"

OutcomeKinds == {"succeeded", "failed", "raised"}

\* the outcomes drawn when two requests interleave
ConcurrentKinds == {"succeeded", "raised"}

-----------------------------------------------------------------------------
(* orchestrator.py: execute_agent_query, up to the await of gather *)

\* the chain with its last elif missing: fitness falls into the else branch
agent_tasks_NoFitnessBranch(intent) ==
    IF intent = SYMPTOM THEN <<PendingTask(assess_symptoms)>>
    ELSE IF intent = LIFESTYLE THEN <<PendingTask(analyze_lifestyle)>>
    ELSE IF intent = DIET THEN <<PendingTask(provide_nutrition_guidance)>>
    ELSE <<PendingTask(assess_symptoms), PendingTask(analyze_lifestyle),
           PendingTask(provide_nutrition_guidance),
           PendingTask(provide_fitness_guidance)>>

\* agent_tasks as built by the if/elif chain
agent_tasks(intent) ==
    IF intent = SYMPTOM THEN <<PendingTask(assess_symptoms)>>
    ELSE IF intent = LIFESTYLE THEN <<PendingTask(analyze_lifestyle)>>
    ELSE IF intent = DIET THEN <<PendingTask(provide_nutrition_guidance)>>
    ELSE IF intent = FITNESS THEN <<PendingTask(provide_fitness_guidance)>>
    ELSE <<PendingTask(assess_symptoms), PendingTask(analyze_lifestyle),
           PendingTask(provide_nutrition_guidance),
           PendingTask(provide_fitness_guidance)>>

\* gather without return_exceptions=True: the await also ends as soon as
\* one task has raised
GatherDone_FirstException(tasks) ==
    \/ \A i \in 1..Len(tasks) : tasks[i].state = "done"
    \/ \E i \in 1..Len(tasks) : tasks[i].type = "exception"

\* a gather that resumes only when every task has returned a success
GatherDone_AllSucceeded(tasks) ==
    \A i \in 1..Len(tasks) :
        tasks[i].state = "done" /\ tasks[i].type = "dict" /\ tasks[i].success

\* `await asyncio.gather(*agent_tasks, return_exceptions=True)` resumes
\* once every task is done
GatherDone(tasks) == \A i \in 1..Len(tasks) : tasks[i].state = "done"

\* the loop abandoned at the first result that is not a success
CollectResponses_StopAtFailure(results) ==
    LET ok(res) == res.type = "dict" /\ res.success
        n == IF \A i \in 1..Len(results) : ok(results[i]) THEN Len(results)
             ELSE (CHOOSE i \in 1..Len(results) :
                      /\ ~ok(results[i])
                      /\ \A j \in 1..(i - 1) : ok(results[j])) - 1
    IN  [i \in 1..n |->
            [agent_name |-> results[i].agent_name,
             content |-> results[i].content,
             confidence |-> results[i].confidence,
             recommendations |-> results[i].recommendations]]

\* the loop with `isinstance(result, dict)` as its only test: a failure dict
\* becomes an AgentResponse built from the defaults of result.get
CollectResponses_NoSuccessTest(results) ==
    LET kept == SelectSeq(results, LAMBDA res : res.type = "dict")
    IN  [i \in 1..Len(kept) |->
            IF kept[i].success
            THEN [agent_name |-> kept[i].agent_name,
                  content |-> kept[i].content,
                  confidence |-> kept[i].confidence,
                  recommendations |-> kept[i].recommendations]
            ELSE [agent_name |-> kept[i].agent_name,
                  content |-> "",
                  confidence |-> 70,
                  recommendations |-> <<>>]]

\* the loop over results: one AgentResponse per dict with success
CollectResponses(results) ==
    LET kept == SelectSeq(results,
                          LAMBDA res : res.type = "dict" /\ res.success)
    IN  [i \in 1..Len(kept) |->
            [agent_name |-> kept[i].agent_name,
             content |-> kept[i].content,
             confidence |-> kept[i].confidence,
             recommendations |-> kept[i].recommendations]]

\* execute_agent_query, first half: classification when no intent is set,
\* the context read (which creates the user's entry) and the fan-out
execute_agent_query_start(rq, store) ==
    LET intent == IF rq.intent = None THEN identify_intent_of[rq.query]
                  ELSE rq.intent
        ctx == get_conversation_context(store, rq.user_id)
    IN  [rq |-> [rq EXCEPT !.pc = "dispatched",
                           !.intent = intent,
                           !.context = ctx.ret,
                           !.tasks = agent_tasks(intent)],
         store |-> ctx.store]

\* the same with the memory write made only when some generator answered
execute_agent_query_finish_WriteIfAnswered(rq, store) ==
    [agent_responses |-> CollectResponses(rq.tasks),
     store |-> IF Len(CollectResponses(rq.tasks)) > 0
               THEN add_user_message(store, rq.user_id, rq.query)
               ELSE store]

\* the same with the memory write rebuilt from what the request saw at
\* dispatch: a request that saw an empty log stores a log of its query alone
execute_agent_query_finish_LostUpdate(rq, store) ==
    [agent_responses |-> CollectResponses(rq.tasks),
     store |-> IF rq.context = ""
               THEN LET s1 == get_or_create_memory(store, rq.user_id)
                    IN  WithEntry(s1, rq.user_id,
                                  [Entry(s1, rq.user_id) EXCEPT !.messages =
                                      <<[role |-> "user", content |-> rq.query]>>])
               ELSE add_user_message(store, rq.user_id, rq.query)]

\* execute_agent_query, second half: agent_responses and the memory write
execute_agent_query_finish(rq, store) ==
    [agent_responses |-> CollectResponses(rq.tasks),
     store |-> add_user_message(store, rq.user_id, rq.query)]

-----------------------------------------------------------------------------
(* orchestrator.py: process_wellness_query *)

\* the same with the conversation context read before the safety check
process_wellness_query_start_ContextFirst(rq, store) ==
    LET intent == identify_intent_of[rq.query]
        rq1 == [rq EXCEPT !.intent = intent, !.local_intent = intent]
        safety == filter_intent_safety_of[intent, rq.query]
        ctx == get_conversation_context(store, rq.user_id)
    IN  IF ~safety.is_safe
        THEN [rq |-> [rq1 EXCEPT
                        !.pc = "emergency",
                        !.is_safe = FALSE,
                        !.result =
                           [user_id |-> rq.user_id,
                            query |-> rq.query,
                            intent |-> intent,
                            agent_responses |-> <<>>,
                            synthesized_guidance |-> safety.warning,
                            primary_recommendations |-> <<>>,
                            warning |-> safety.warning,
                            requires_emergency |-> TRUE]],
              store |-> ctx.store]
        ELSE execute_agent_query_start(rq1, store)

\* from the call to the first suspension (or to the emergency return)
process_wellness_query_start(rq, store) ==
    LET intent == identify_intent_of[rq.query]
        rq1 == [rq EXCEPT !.intent = intent, !.local_intent = intent]
        safety == filter_intent_safety_of[intent, rq.query]
    IN  IF ~safety.is_safe
        THEN [rq |-> [rq1 EXCEPT
                        !.pc = "emergency",
                        !.is_safe = FALSE,
                        !.result =
                           [user_id |-> rq.user_id,
                            query |-> rq.query,
                            intent |-> intent,
                            agent_responses |-> <<>>,
                            synthesized_guidance |-> safety.warning,
                            primary_recommendations |-> <<>>,
                            warning |-> safety.warning,
                            requires_emergency |-> TRUE]],
              store |-> store]
        ELSE execute_agent_query_start(rq1, store)

\* from the resumption after gather to the return
process_wellness_query_finish(rq, store) ==
    LET fin == execute_agent_query_finish(rq, store)
    IN  [rq |-> [rq EXCEPT
                   !.pc = "returned",
                   !.result =
                      [user_id |-> rq.user_id,
                       query |-> rq.query,
                       intent |-> rq.local_intent,
                       agent_responses |-> fin.agent_responses,
                       agent_count |-> Len(fin.agent_responses)]],
         store |-> fin.store]

-----------------------------------------------------------------------------
(* State *)

\* insert_log after a step that takes the store from `old` to `new`: the ids
\* whose entry is gone are dropped, the id whose entry was created is appended
LogAfter(log, old, new) ==
    LET kept == SelectSeq(log, LAMBDA v : v \in Keys(new) /\ v \in Keys(old))
        created == Keys(new) \ Keys(old)
    IN  IF created = {} THEN kept
        ELSE kept \o <<CHOOSE v \in created : TRUE>>


IdleRequest ==
    [pc |-> "idle", user_id |-> None, query |-> "", intent |-> None,
     local_intent |-> None, is_safe |-> TRUE, context |-> "",
     tasks |-> <<>>, result |-> [user_id |-> None]]

NoOp == [op |-> None, user_id |-> None, ret |-> None, n |-> 0]

NoHttp == [handler |-> None]

NoConv == [made |-> FALSE, memory |-> None, added |-> <<>>]

NoCall == [method |-> None]

\* the state before any request, with d as the default of max_messages
InitWith(d) ==
    /\ memory_store = <<>>          \* MemoryManager.__init__
    /\ requests = [r \in ReqIds |-> IdleRequest]
    /\ started = 0
    /\ last_op = NoOp
    /\ http = NoHttp
    /\ insert_log = <<>>
    /\ default_max_messages = d
    /\ conv = NoConv
    /\ call = NoCall

Init == InitWith(max_messages)

-----------------------------------------------------------------------------
(* The orchestrator pipeline.  Python code between two awaits runs         *)
(* without interleaving on the event loop, so each action is one such run. *)

\* a caller awaits orchestrator.process_wellness_query(WellnessQuery(...))
Receive(r, user_id, query, intent, limit) ==
    /\ requests[r].pc = "idle"
    /\ started < limit
    /\ requests' = [requests EXCEPT ![r] =
                       [IdleRequest EXCEPT !.pc = "received",
                                           !.user_id = user_id,
                                           !.query = query,
                                           !.intent = intent]]
    /\ started' = started + 1
    /\ UNCHANGED <<aux, memory_store, last_op, http, insert_log>>

\* classify, safety-check, then the emergency return or the fan-out
Begin(r) ==
    /\ requests[r].pc = "received"
    /\ LET out == process_wellness_query_start(requests[r], memory_store)
       IN  /\ requests' = [requests EXCEPT ![r] = out.rq]
           /\ memory_store' = out.store
           /\ insert_log' = LogAfter(insert_log, memory_store, out.store)
    /\ UNCHANGED <<aux, started, last_op, http>>

\* one generator call of request r settles
GenSettle(r, i, kinds) ==
    /\ requests[r].pc = "dispatched"
    /\ i \in 1..Len(requests[r].tasks)
    /\ requests[r].tasks[i].state = "pending"
    /\ \E outcome \in GeneratorOutcomes(requests[r].tasks[i].fn) :
          /\ OutcomeKind(outcome) \in kinds
          /\ requests' = [requests EXCEPT ![r].tasks[i] = outcome]
    /\ UNCHANGED <<aux, memory_store, started, last_op, http, insert_log>>

\* gather resumes the coroutine: collect, write memory, return
Collect(r) ==
    /\ requests[r].pc = "dispatched"
    /\ GatherDone(requests[r].tasks)
    /\ LET out == process_wellness_query_finish(requests[r], memory_store)
       IN  /\ requests' = [requests EXCEPT ![r] = out.rq]
           /\ memory_store' = out.store
           /\ insert_log' = LogAfter(insert_log, memory_store, out.store)
    /\ UNCHANGED <<aux, started, last_op, http>>

\* the caller has taken the returned dict
Deliver(r) ==
    /\ requests[r].pc \in {"emergency", "returned"}
    /\ requests' = [requests EXCEPT ![r] = IdleRequest]
    /\ UNCHANGED <<aux, memory_store, started, last_op, http, insert_log>>

\* the steps of one coroutine, its inputs drawn from the given sets
RequestStep(r, users, queries, intents, limit, kinds) ==
    \/ \E u \in users, q \in queries, ci \in intents : Receive(r, u, q, ci, limit)
    \/ Begin(r)
    \/ \E i \in 1..4 : GenSettle(r, i, kinds)
    \/ Collect(r)
    \/ Deliver(r)

\* Two coroutines interleaving on the event loop
Next == \E r \in ReqIds : RequestStep(r, Users, ConcurrentQueries, {None}, MaxConcurrentRequests,
                            ConcurrentKinds)

Spec == Init /\ [][Next]_vars

\* One coroutine at a time, over every query and every caller-supplied intent
NextSeq == RequestStep(1, Users, Queries, CallerIntents, MaxRequests, OutcomeKinds)

SpecSeq == Init /\ [][NextSeq]_vars

-----------------------------------------------------------------------------
(* agents/.../main.py: MockOrchestrator and the handler wellness_query.    *)
(* The bullet and siren characters of the source's literals are written    *)
(* "-" and "!!" here.                                                      *)

MockOrchestrator_detect_intent(query) ==
    LET query_lower == Lower(query)
    IN  IF ContainsAny(query_lower, <<"tired", "pain", "headache", "sick">>)
        THEN "symptom"
        ELSE IF ContainsAny(query_lower, <<"sleep", "stress", "routine">>)
        THEN "lifestyle"
        ELSE IF ContainsAny(query_lower, <<"food", "eat", "diet">>)
        THEN "diet"
        ELSE IF ContainsAny(query_lower, <<"exercise", "workout", "gym">>)
        THEN "fitness"
        ELSE "general"

MockOrchestrator_get_agent_responses(query) ==
    LET query_lower == Lower(query)
    IN  IF Contains(query_lower, "tired")
        THEN <<[agent_name |-> "Symptom Assessment",
                content |-> "## Symptom Assessment\n\n**Your concern:** " \o query
                            \o "\n\n**Analysis:** Fatigue can be caused by poor sleep, dehydration, or stress.",
                confidence |-> 85,
                recommendations |-> <<"Drink 8-10 glasses water", "7-8 hours sleep",
                                      "10-min walks", "Deep breathing">>]>>
        ELSE IF Contains(query_lower, "food") \/ Contains(query_lower, "eat")
        THEN <<[agent_name |-> "Nutrition Guide",
                content |-> "## Nutrition Guidance\n\n**Your question:** " \o query
                            \o "\n\n**Sample meal:** Oatmeal + berries + nuts breakfast.",
                confidence |-> 80,
                recommendations |-> <<"Complex carbs", "Healthy fats", "Quality protein",
                                      "Leafy greens", "Stay hydrated">>]>>
        ELSE IF Contains(query_lower, "exercise")
        THEN <<[agent_name |-> "Fitness Coach",
                content |-> "## Fitness Guidance\n\n**Your question:** " \o query
                            \o "\n\n**Safety:** Start slow, proper form, stop if pain.",
                confidence |-> 81,
                recommendations |-> <<"20-min walks", "Bodyweight squats",
                                      "Knee push-ups", "Proper form first">>]>>
        ELSE <<[agent_name |-> "Lifestyle Coach",
                content |-> "## General Wellness\n\n**Query:** " \o query
                            \o "\n\n**Holistic Approach:**",
                confidence |-> 75,
                recommendations |-> <<"Sleep hygiene", "Hydration", "Daily movement",
                                      "Stress management", "Whole foods">>]>>

MockOrchestrator_process_wellness_query(query) ==
    [user_id |-> query.user_id,
     query |-> query.query,
     intent |-> MockOrchestrator_detect_intent(query.query),
     agent_responses |-> MockOrchestrator_get_agent_responses(query.query),
     agent_count |-> 1]

emergency_keywords == <<"chest pain", "can't breathe", "suicidal">>

\* POST /wellness/query of agents/.../main.py: the QueryResponse returned
\* (request.intent and request.user_profile are accepted and not read)
wellness_query(request) ==
    IF ContainsAny(Lower(request.query), emergency_keywords)
    THEN [user_id |-> request.user_id,
          query |-> request.query,
          intent |-> "emergency",
          agent_responses |-> <<>>,
          synthesized_guidance |->
              "!! CRITICAL: Seek emergency medical help immediately (911)",
          primary_recommendations |-> <<>>,
          agent_count |-> 0,
          warning |-> "EMERGENCY REQUIRED",
          requires_emergency |-> TRUE]
    ELSE LET result == MockOrchestrator_process_wellness_query(
                           [user_id |-> request.user_id, query |-> request.query])
             has == Len(result.agent_responses) > 0
         IN  [user_id |-> result.user_id,
              query |-> result.query,
              intent |-> result.intent,
              agent_responses |-> result.agent_responses,
              synthesized_guidance |->
                  IF has THEN result.agent_responses[1].content
                  ELSE "No guidance available",
              primary_recommendations |->
                  IF has THEN result.agent_responses[1].recommendations ELSE <<>>,
              agent_count |-> result.agent_count,
              warning |-> None,
              requires_emergency |-> FALSE]

-----------------------------------------------------------------------------
(* src/main.py: the thin entrypoint's handler wellness_query *)

thin_wellness_query(request) ==
    LET query_lower == Lower(request.query)
        branch ==
            IF ContainsAny(query_lower, <<"tired", "pain", "headache">>)
            THEN [intent |-> "symptom",
                  guidance |-> "\n## Symptom Assessment\n**Concern:** " \o request.query
                               \o "\n\n**Note:** Consult doctor if persists >2 weeks.\n",
                  recs |-> <<"Hydrate", "Sleep 7-8hrs", "Walk 10min", "Less caffeine">>]
            ELSE IF ContainsAny(query_lower, <<"food", "eat", "diet">>)
            THEN [intent |-> "diet",
                  guidance |-> "\n## Nutrition Guide\n**Question:** " \o request.query
                               \o "\n\n**Hydrate consistently!**\n",
                  recs |-> <<"Oats+berries", "Nuts+avocado", "Salmon+quinoa",
                             "Green smoothie">>]
            ELSE IF ContainsAny(query_lower, <<"exercise", "workout">>)
            THEN [intent |-> "fitness",
                  guidance |-> "\n## Fitness Coach  \n**Goal:** " \o request.query
                               \o "\n\n**Safety first - proper form!**\n",
                  recs |-> <<"20min walk", "Squats 3x10", "Pushups 3x8", "Proper form">>]
            ELSE [intent |-> "general",
                  guidance |-> "\n## Wellness Guidance\n**Query:** " \o request.query
                               \o "\n\n**Holistic Tips:**\n",
                  recs |-> <<"Sleep 7-8hrs", "Hydrate", "Walk 20min", "Whole foods">>]
    IN  [user_id |-> request.user_id,
         query |-> request.query,
         intent |-> branch.intent,
         synthesized_guidance |-> branch.guidance,
         recommendations |-> branch.recs]

-----------------------------------------------------------------------------
(* The HTTP boundary: one exchange per step *)

\* request bodies posted to /wellness/query
HttpQueries ==
    {"I have chest pain",
     "CHEST PAIN since this morning",
     "difficulty breathing at night",
     "severe bleeding from a cut",
     "sudden loss of consciousness",
     "I had a seizure yesterday",
     "I am feeling suicidal",
     "I want to harm myself",
     "I can't breathe",
     "I feel tired and have a headache",
     "what food should I eat",
     "best exercise plan",
     "how to handle stress",
     "tell me about vacations"}

wellness_query_of ==
    [u \in Users, q \in HttpQueries |->
        wellness_query([user_id |-> u, query |-> q])]

thin_wellness_query_of ==
    [u \in Users, q \in HttpQueries |->
        thin_wellness_query([user_id |-> u, query |-> q])]

\* does the text contain a phrase of the Safety Gate's list?
HasCriticalSymptom == [q \in HttpQueries |-> ContainsAny(Lower(q), critical_symptoms)]

HandleQuery(u, q, intent) ==
    /\ http' = [handler |-> "agents/main.py",
                request |-> [user_id |-> u, query |-> q, intent |-> intent],
                response |-> wellness_query_of[u, q]]
    /\ UNCHANGED <<aux, memory_store, requests, started, last_op, insert_log>>

HandleQueryThin(u, q) ==
    /\ http' = [handler |-> "main.py",
                request |-> [user_id |-> u, query |-> q],
                response |-> thin_wellness_query_of[u, q]]
    /\ UNCHANGED <<aux, memory_store, requests, started, last_op, insert_log>>

NextHttp ==
    \E u \in Users, q \in HttpQueries :
        \/ \E intent \in CallerIntents : HandleQuery(u, q, intent)
        \/ HandleQueryThin(u, q)

SpecHttp == Init /\ [][NextHttp]_vars

-----------------------------------------------------------------------------
(* Direct use of the MemoryManager (get_user_memory_context,               *)
(* clear_user_memory and the methods of short_memory.py), one call a step. *)

StoreUsers == {"u1", "u2", "u3", "u4"}

StoreMessages == {"hello"}

StoreContexts == {[goal |-> "sleep"]}

StoreCall(op, user_id, store, ret) ==
    /\ last_op.n < MaxStoreOps
    /\ memory_store' = store
    /\ insert_log' = LogAfter(insert_log, memory_store, store)
    /\ last_op' = [op |-> op, user_id |-> user_id, ret |-> ret, n |-> last_op.n + 1]
    /\ UNCHANGED <<aux, requests, started, http>>

AddUserMessage(u, m) ==
    StoreCall("add_user_message", u, add_user_message(memory_store, u, m), None)

AddAssistantMessage(u, m) ==
    StoreCall("add_assistant_message", u,
              add_assistant_message(memory_store, u, m), None)

GetConversationContext(u) ==
    LET out == get_conversation_context(memory_store, u)
    IN  StoreCall("get_conversation_context", u, out.store, out.ret)

GetMemoryStats(u) ==
    LET out == get_memory_stats(memory_store, u)
    IN  StoreCall("get_memory_stats", u, out.store, out.ret)

UpdateUserContext(u, c) ==
    StoreCall("update_user_context", u, update_user_context(memory_store, u, c), None)

ClearMemory(u) ==
    StoreCall("clear_memory", u, clear_memory(memory_store, u), None)

NextStore ==
    \E u \in StoreUsers :
        \/ \E m \in StoreMessages : AddUserMessage(u, m)
        \/ \E m \in StoreMessages : AddAssistantMessage(u, m)
        \/ GetConversationContext(u)
        \/ GetMemoryStats(u)
        \/ \E c \in StoreContexts : UpdateUserContext(u, c)
        \/ ClearMemory(u)

SpecStore == Init /\ [][NextStore]_vars

-----------------------------------------------------------------------------
(* Properties of the request pipeline *)

\* what the Safety Gate reports for the request's text and classified intent
GateUnsafe(rq) ==
    ~filter_intent_safety_of[identify_intent_of[rq.query], rq.query].is_safe

Settled(task) == task.state = "done"

Succeeded(task) == Settled(task) /\ task.type = "dict" /\ task.success

AllSettled(tasks) == \A i \in 1..Len(tasks) : Settled(tasks[i])

NoneSucceeded(tasks) == \A i \in 1..Len(tasks) : ~Succeeded(tasks[i])

\* the messages stored for a user (none when the user has no entry)
MessagesOf(store, u) == IF u \in Keys(store) THEN Entry(store, u).messages ELSE <<>>

\* C1: for every query whose text contains a critical-symptom phrase of the
\* Safety Gate's list, the response of the request handler, whose emergency
\* check runs before classification, has requires_emergency = true and an
\* empty agent_responses list.
C1_PrecheckCoversCriticalSymptoms ==
    (http.handler = "agents/main.py" /\ HasCriticalSymptom[http.request.query])
        => /\ http.response.requires_emergency
           /\ Len(http.response.agent_responses) = 0

\* C2: when the Safety Gate reports unsafe, the step that takes the request
\* out of "received" ends it in the emergency response: no generator call is
\* launched, the guidance is the fixed warning and not a synthesized
\* document, and the Memory Store (entries, their order, their logs) is the
\* same after the step as before it.
C2_EmergencySkipsDispatchAndMemory ==
    [][\A r \in ReqIds :
          (/\ requests[r].pc = "received"
           /\ requests'[r].pc # "received"
           /\ GateUnsafe(requests[r]))
          => /\ requests'[r].pc = "emergency"
             /\ Len(requests'[r].tasks) = 0
             /\ requests'[r].result.requires_emergency
             /\ Len(requests'[r].result.agent_responses) = 0
             /\ Len(requests'[r].result.primary_recommendations) = 0
             /\ requests'[r].result.synthesized_guidance = CRITICAL_WARNING
             /\ memory_store' = memory_store]_vars

\* C2 witness: a request ended in the emergency response while the store
\* holds an entry of its user and another request of that user is in flight
C2_Witness ==
    \E r \in ReqIds, r2 \in ReqIds :
        /\ requests[r].pc = "emergency"
        /\ requests[r2].pc = "dispatched"
        /\ requests[r2].user_id = requests[r].user_id
        /\ requests[r].user_id \in Keys(memory_store)

\* C3: a caller-supplied intent is used as-is: the step that classifies and
\* safety-checks the request leaves the supplied intent in place as the
\* intent of the dispatch and as the returned intent.
C3_CallerIntentHonoured ==
    [][\A r \in ReqIds :
          (/\ requests[r].pc = "received"
           /\ requests'[r].pc # "received"
           /\ requests[r].intent # None)
          => /\ requests'[r].intent = requests[r].intent
             /\ requests'[r].local_intent = requests[r].intent
             /\ requests'[r].pc = "dispatched"
                  => requests'[r].tasks = agent_tasks(requests[r].intent)
             /\ requests'[r].pc = "emergency"
                  => requests'[r].result.intent = requests[r].intent]_vars

\* C4: a request ends in exactly one of the two terminal states, and the
\* result returned on the safe path carries synthesized_guidance and
\* primary_recommendations.
C4_SafeResultIsSynthesized ==
    \A r \in ReqIds :
        /\ requests[r].pc = "emergency"
             => ~requests[r].is_safe /\ Len(requests[r].tasks) = 0
        /\ requests[r].pc = "returned"
             => /\ requests[r].is_safe /\ AllSettled(requests[r].tasks)
                /\ "synthesized_guidance" \in DOMAIN requests[r].result
                /\ "primary_recommendations" \in DOMAIN requests[r].result

\* C5 (as claimed): when every generator call launched for a request has
\* failed the orchestrator does not return a normal result.
C5_AllFailedRaises ==
    \A r \in ReqIds :
        requests[r].pc = "returned" => ~NoneSucceeded(requests[r].tasks)

\* C5 (amended): the orchestrator returns a normal result whatever the
\* generators did: agent_count is the number of calls that succeeded, and
\* when every call failed agent_responses is empty and agent_count is 0.
C5_AllFailedReturnsEmptyResult ==
    \A r \in ReqIds :
        requests[r].pc = "returned"
            => LET res == requests[r].result
                   ok == {i \in 1..Len(requests[r].tasks) :
                             Succeeded(requests[r].tasks[i])}
               IN  /\ res.agent_count = Cardinality(ok)
                   /\ Len(res.agent_responses) = Cardinality(ok)
                   /\ "requires_emergency" \notin DOMAIN res
                   /\ res.user_id = requests[r].user_id
                   /\ res.query = requests[r].query

\* C5 witness: a general request returned after all four calls failed
C5_Witness ==
    \E r \in ReqIds :
        /\ requests[r].pc = "returned"
        /\ Len(requests[r].tasks) = 4
        /\ NoneSucceeded(requests[r].tasks)
        /\ requests[r].result.agent_count = 0

\* the agent coroutines in the order the general branch lists them
InvocationOrder ==
    <<assess_symptoms, analyze_lifestyle, provide_nutrition_guidance,
      provide_fitness_guidance>>

\* C6: a failing generator call (a returned failure or a raised exception)
\* neither stops the others nor aborts the dispatch: the returned sequence
\* holds exactly the results of the calls that succeeded, in invocation
\* order symptom, lifestyle, diet, fitness; a call that has settled is never
\* run again.
C6_FailuresOmittedOrderKept ==
    /\ [](\A r \in ReqIds :
            requests[r].pc = "returned"
              => LET tasks == requests[r].tasks
                     won == SelectSeq(InvocationOrder,
                               LAMBDA g : \E i \in 1..Len(tasks) :
                                   tasks[i].fn = g /\ Succeeded(tasks[i]))
                     got == requests[r].result.agent_responses
                 IN  /\ AllSettled(tasks)
                     /\ Len(got) = Len(won)
                     /\ \A k \in 1..Len(won) :
                           /\ got[k].agent_name = agent_name(won[k])
                           /\ got[k].confidence = agent_confidence(won[k]))
    /\ [][\A r \in ReqIds :
            (requests[r].pc = "dispatched" /\ requests'[r].pc # "idle")
              => /\ Len(requests'[r].tasks) = Len(requests[r].tasks)
                 /\ \A i \in 1..Len(requests[r].tasks) :
                       Settled(requests[r].tasks[i])
                         => requests'[r].tasks[i] = requests[r].tasks[i]]_vars

\* C6 witness: a general dispatch returned with one call raised, one call
\* failed and two succeeded
C6_Witness ==
    \E r \in ReqIds :
        /\ requests[r].pc = "returned"
        /\ Len(requests[r].tasks) = 4
        /\ requests[r].tasks[1].type = "exception"
        /\ Succeeded(requests[r].tasks[2])
        /\ requests[r].tasks[3].type = "dict" /\ ~requests[r].tasks[3].success
        /\ Succeeded(requests[r].tasks[4])
        /\ Len(requests[r].result.agent_responses) = 2

\* the generator mapped to each specific intent
MappedGenerator ==
    [symptom |-> assess_symptoms, lifestyle |-> analyze_lifestyle,
     diet |-> provide_nutrition_guidance, fitness |-> provide_fitness_guidance]

\* C7: a dispatch with intent general launches all four generators, each
\* exactly once; a dispatch with a specific intent launches exactly one
\* generator, the one mapped to that intent.
C7_GeneralLaunchesAllSpecificOne ==
    \A r \in ReqIds :
        requests[r].pc \in {"dispatched", "returned"}
          => LET tasks == requests[r].tasks
                 launched(g) == {i \in 1..Len(tasks) : tasks[i].fn = g}
             IN  IF requests[r].intent = GENERAL
                 THEN /\ Len(tasks) = 4
                      /\ \A g \in Generators : Cardinality(launched(g)) = 1
                 ELSE /\ requests[r].intent \in DOMAIN MappedGenerator
                      /\ Len(tasks) = 1
                      /\ tasks[1].fn = MappedGenerator[requests[r].intent]

\* C7 witness: a fitness request has its single call in flight
C7_Witness ==
    \E r \in ReqIds :
        /\ requests[r].pc = "dispatched"
        /\ requests[r].intent = FITNESS
        /\ Len(requests[r].tasks) = 1
        /\ requests[r].tasks[1].state = "pending"

\* some user's stored messages differ between the two stores
LogsDiffer(old, new) ==
    \E u \in Keys(old) \cup Keys(new) : MessagesOf(old, u) # MessagesOf(new, u)

\* C8: fan-in barrier: the dispatch returns, and memory is written, only
\* after every generator call it launched has settled; a returned request
\* has no call left in flight.
C8_FanInBarrier ==
    /\ [](\A r \in ReqIds :
            requests[r].pc = "returned" => AllSettled(requests[r].tasks))
    /\ [][/\ \A r \in ReqIds :
               (requests[r].pc = "dispatched" /\ requests'[r].pc # "dispatched")
                 => AllSettled(requests[r].tasks)
          /\ LogsDiffer(memory_store, memory_store')
               => \E r \in ReqIds :
                     /\ requests[r].pc = "dispatched"
                     /\ requests'[r].pc = "returned"
                     /\ AllSettled(requests[r].tasks)]_vars

\* C8 witness: a general request has returned, one of its calls having
\* raised, while the other request still has calls in flight
C8_Witness ==
    \E r \in ReqIds, r2 \in ReqIds :
        /\ requests[r].pc = "returned"
        /\ Len(requests[r].tasks) = 4
        /\ \E i \in 1..4 : requests[r].tasks[i].type = "exception"
        /\ requests[r2].pc = "dispatched"
        /\ ~AllSettled(requests[r2].tasks)

\* a log cut down to its newest `cap` entries, oldest dropped first
DropFront(log, cap) ==
    IF Len(log) <= cap THEN log
    ELSE [k \in 1..cap |-> log[k + (Len(log) - cap)]]

\* C9: the step that completes a dispatch appends exactly one entry
\* {role: user, content: the query text} to the log of the request's user
\* (the oldest entries leaving a log that is full), whatever number of
\* generators succeeded; it runs only once every call has settled, leaves
\* every other stored log alone, no other step of a request changes a stored
\* log, and no assistant entry is ever stored.
C9_OneUserEntryPerSafeRequest ==
    /\ [](\A i \in 1..Len(memory_store) :
            \A k \in 1..Len(memory_store[i].messages) :
                memory_store[i].messages[k].role = "user")
    /\ [][\A r \in ReqIds :
            IF requests[r].pc = "dispatched" /\ requests'[r].pc = "returned"
            THEN LET u == requests[r].user_id
                     entry == [role |-> "user", content |-> requests[r].query]
                 IN  /\ AllSettled(requests[r].tasks)
                     /\ u \in Keys(memory_store')
                     /\ MessagesOf(memory_store', u) =
                          DropFront(MessagesOf(memory_store, u) \o <<entry>>,
                                    max_messages)
                     /\ \A v \in Keys(memory_store') \ {u} :
                           /\ v \in Keys(memory_store)
                           /\ MessagesOf(memory_store', v) = MessagesOf(memory_store, v)
            ELSE requests'[r] # requests[r]
                   => \A v \in Keys(memory_store') :
                         MessagesOf(memory_store', v) = MessagesOf(memory_store, v)]_vars

\* C9 witness: a request none of whose four calls succeeded has returned and
\* its query is the newest entry of a log that was full before
C9_Witness ==
    \E r \in ReqIds :
        /\ requests[r].pc = "returned"
        /\ Len(requests[r].tasks) = 4
        /\ requests[r].result.agent_count = 0
        /\ started > max_messages
        /\ LET log == MessagesOf(memory_store, requests[r].user_id)
           IN  /\ Len(log) = max_messages
               /\ log[Len(log)] = [role |-> "user", content |-> requests[r].query]

-----------------------------------------------------------------------------
(* Properties of the Memory Store *)

\* the user ids of the store in dict iteration order
UserOrder(store) == [i \in 1..Len(store) |-> store[i].user_id]

\* C10: the store never holds more than max_users entries; a call that
\* creates an entry for a new user while the store is full evicts exactly the
\* one entry that was created earliest (access does not refresh an entry's
\* place), a call that creates an entry while there is room evicts nobody,
\* and a call for a user that already has an entry evicts nobody.
C10_StoreBoundedEvictsOldestInserted ==
    /\ [](/\ Len(memory_store) <= max_users
          /\ UserOrder(memory_store) = insert_log)
    /\ [][last_op'.n = last_op.n + 1
            => LET u == last_op'.user_id
                   old == Keys(memory_store)
                   new == Keys(memory_store')
               IN  IF last_op'.op = "clear_memory"
                   THEN new = old \ {u}
                   ELSE IF u \in old
                   THEN new = old
                   ELSE IF Len(memory_store) >= max_users
                   THEN /\ new = (old \ {Head(insert_log)}) \cup {u}
                        /\ Cardinality(old \ new) = 1
                        /\ \A v \in new \ {u} :
                              Entry(memory_store', v) = Entry(memory_store, v)
                   ELSE new = old \cup {u}]_vars

\* C10 witness: the store is full, the entry of the new user u3 has just been
\* created by a call made after the store had filled up, the entry of u1 has
\* been evicted and the entry of u2 is still there
C10_Witness ==
    /\ Len(memory_store) = max_users
    /\ last_op.op # "clear_memory"
    /\ last_op.n > max_users + 1
    /\ memory_store[Len(memory_store)].user_id = last_op.user_id
    /\ Len(memory_store[Len(memory_store)].messages) = 0
    /\ "u1" \notin Keys(memory_store)
    /\ "u2" \in Keys(memory_store)
    /\ last_op.user_id = "u3"

-----------------------------------------------------------------------------
(* schemas.py: a ConversationMemory constructed and used directly.  The    *)
(* field max_messages is an int that the constructor accepts as given.     *)

\* number of add_message calls made on the object in a behaviour
MaxAdds == 5

\* values given to ConversationMemory(max_messages=...)
MessageCaps == 0..3

LogRoles == {"user", "assistant"}

LogContents == {"a", "b"}

\* memory = ConversationMemory(user_id="u1", max_messages=cap)
Construct(cap) ==
    /\ ~conv.made
    /\ conv' = [made |-> TRUE,
                memory |-> [ConversationMemory("u1") EXCEPT !.max_messages = cap],
                added |-> <<>>]
    /\ UNCHANGED <<memory_store, requests, started, last_op, http, insert_log,
                   default_max_messages, call>>

\* memory.add_message(role, content)
AddMessage(role, content) ==
    /\ conv.made
    /\ Len(conv.added) < MaxAdds
    /\ conv' = [made |-> TRUE,
                memory |-> add_message(conv.memory, role, content),
                added |-> Append(conv.added, [role |-> role, content |-> content])]
    /\ UNCHANGED <<memory_store, requests, started, last_op, http, insert_log,
                   default_max_messages, call>>

NextLog ==
    \/ \E cap \in MessageCaps : Construct(cap)
    \/ \E role \in LogRoles, content \in LogContents : AddMessage(role, content)

SpecLog == Init /\ [][NextLog]_vars

\* C11: after any sequence of add_message calls a ConversationMemory holds
\* at most max_messages entries, and they are the most recently added ones
\* in the order they were added, for every non-negative max_messages.
C11_LogBoundedNewestKept ==
    conv.made
      => /\ Len(conv.memory.messages) <= conv.memory.max_messages
         /\ conv.memory.messages = DropFront(conv.added, conv.memory.max_messages)

-----------------------------------------------------------------------------
(* synthesizer.py: text helpers.  str[:n] and list[:n], and textwrap.fill  *)
(* with the defaults of TextWrapper for text without tabs and hyphens:     *)
(* whitespace characters become spaces, the text is cut into runs of       *)
(* spaces and runs of other characters, lines are filled greedily, a run   *)
(* of spaces at the start of a line after the first or at the end of a     *)
(* line is dropped, and a word longer than the width is broken.            *)

\* s[:n] for a str
Prefix(s, n) == IF Len(s) <= n THEN s ELSE SubSeq(s, 1, n)

\* s[n:] for a str
Suffix(s, n) == IF Len(s) <= n THEN "" ELSE SubSeq(s, n + 1, Len(s))

\* xs[:n] for a list (a negative n counts from the end)
Take(xs, n) ==
    IF n >= 0
    THEN IF Len(xs) <= n THEN xs ELSE SubSeq(xs, 1, n)
    ELSE IF Len(xs) + n <= 0 THEN <<>> ELSE SubSeq(xs, 1, Len(xs) + n)

\* TextWrapper._munge_whitespace (the text is halved to keep the recursion shallow)
RECURSIVE MungeWhitespace(_)
MungeWhitespace(s) ==
    IF Len(s) = 0 THEN ""
    ELSE IF Len(s) = 1 THEN (IF s = "\n" THEN " " ELSE s)
    ELSE LET h == Len(s) \div 2
         IN  MungeWhitespace(SubSeq(s, 1, h)) \o MungeWhitespace(SubSeq(s, h + 1, Len(s)))

\* chunk.strip() == '' for a chunk that is one run
IsSpaces(chunk) == Len(chunk) = 0 \/ SubSeq(chunk, 1, 1) = " "

\* TextWrapper._split: the maximal runs of spaces and of other characters
\* (the text is halved and the runs that meet at the cut are joined)
RECURSIVE SplitChunks(_)
SplitChunks(s) ==
    IF Len(s) = 0 THEN <<>>
    ELSE IF Len(s) = 1 THEN <<s>>
    ELSE LET h == Len(s) \div 2
             a == SplitChunks(SubSeq(s, 1, h))
             b == SplitChunks(SubSeq(s, h + 1, Len(s)))
         IN  IF IsSpaces(a[Len(a)]) = IsSpaces(b[1])
             THEN SubSeq(a, 1, Len(a) - 1) \o <<a[Len(a)] \o b[1]>> \o Tail(b)
             ELSE a \o b

RECURSIVE TotalLen(_)
TotalLen(chunks) ==
    IF Len(chunks) = 0 THEN 0 ELSE Len(Head(chunks)) + TotalLen(Tail(chunks))

RECURSIVE Concat(_)
Concat(chunks) ==
    IF Len(chunks) = 0 THEN "" ELSE Head(chunks) \o Concat(Tail(chunks))

\* TextWrapper._wrap_chunks: the lines made of the chunks, after `lines`
RECURSIVE WrapChunks(_, _, _)
WrapChunks(chunks, width, lines) ==
    IF Len(chunks) = 0 THEN lines
    ELSE LET c1 == IF IsSpaces(chunks[1]) /\ Len(lines) > 0 THEN Tail(chunks)
                   ELSE chunks
             k == CHOOSE n \in 0..Len(c1) :
                     /\ TotalLen(SubSeq(c1, 1, n)) <= width
                     /\ n = Len(c1) \/ TotalLen(SubSeq(c1, 1, n + 1)) > width
             cur_line == SubSeq(c1, 1, k)
             rest == SubSeq(c1, k + 1, Len(c1))
             long == Len(rest) > 0 /\ Len(rest[1]) > width
             space_left == width - TotalLen(cur_line)
             line1 == IF long THEN Append(cur_line, Prefix(rest[1], space_left))
                      ELSE cur_line
             rest1 == IF long THEN <<Suffix(rest[1], space_left)>> \o Tail(rest)
                      ELSE rest
             line2 == IF Len(line1) > 0 /\ IsSpaces(line1[Len(line1)])
                      THEN SubSeq(line1, 1, Len(line1) - 1)
                      ELSE line1
         IN  WrapChunks(rest1, width,
                        IF Len(line2) > 0 THEN Append(lines, Concat(line2))
                        ELSE lines)

\* textwrap.fill(text, width=width)
Fill(text, width) ==
    Join("\n", WrapChunks(SplitChunks(MungeWhitespace(text)), width, <<>>))

-----------------------------------------------------------------------------
(* synthesizer.py: ResponseSynthesizer.  Confidence is kept in hundredths; *)
(* the bullet character of the templates is written "-".                   *)

\* self.min_confidence_threshold = 0.65
min_confidence_threshold == 65

\* rec.lower()[:50]
RecKey(rec) == Prefix(Lower(rec), 50)

\* the recommendations in the order the two nested loops visit them
RECURSIVE FlattenRecommendations(_)
FlattenRecommendations(responses) ==
    IF Len(responses) = 0 THEN <<>>
    ELSE Head(responses).recommendations \o FlattenRecommendations(Tail(responses))

\* the loop body of _extract_unified_recommendations
RECURSIVE DedupWalk(_, _, _)
DedupWalk(recs, all_recs, seen) ==
    IF Len(recs) = 0 THEN all_recs
    ELSE LET rec_lower == RecKey(Head(recs))
         IN  IF rec_lower \notin seen
             THEN DedupWalk(Tail(recs), Append(all_recs, Head(recs)),
                            seen \cup {rec_lower})
             ELSE DedupWalk(Tail(recs), all_recs, seen)

\* the loops without the `not in seen` test
extract_unified_recommendations_NoDedup(responses, limit) ==
    Take(FlattenRecommendations(responses), limit)

\* ResponseSynthesizer._extract_unified_recommendations
extract_unified_recommendations(responses, limit) ==
    Take(DedupWalk(FlattenRecommendations(responses), <<>>, {}), limit)

\* "\n{i}. {rec}" for i, rec in enumerate(recs, 1)
RECURSIVE NumberedFrom(_, _)
NumberedFrom(recs, i) ==
    IF Len(recs) = 0 THEN ""
    ELSE "\n" \o ToString(i) \o ". " \o Head(recs) \o NumberedFrom(Tail(recs), i + 1)

\* "\n- {rec}" for rec in recs
RECURSIVE Bulleted(_)
Bulleted(recs) ==
    IF Len(recs) = 0 THEN "" ELSE "\n- " \o Head(recs) \o Bulleted(Tail(recs))

\* ResponseSynthesizer._get_fallback_guidance
get_fallback_guidance(intent) ==
    CASE intent = SYMPTOM ->
           "Unable to assess symptoms at this time. Please consult a healthcare provider."
      [] intent = LIFESTYLE ->
           "Unable to provide lifestyle guidance. Consider consulting a wellness coach."
      [] intent = DIET ->
           "Unable to provide nutrition guidance. Consult a registered dietitian."
      [] intent = FITNESS ->
           "Unable to provide fitness guidance. Consult a fitness professional."
      [] intent = GENERAL ->
           "Unable to process your query. Please rephrase and try again."
      [] OTHER -> "Unable to provide guidance at this time."

\* ResponseSynthesizer._synthesize_symptom_response
synthesize_symptom_response(responses, query) ==
    "\n## Symptom Assessment\n\n**Your concern:** " \o query
    \o "\n\n**Initial Assessment:**\n"
    \o Fill(IF Len(responses) > 0
            THEN Prefix(responses[1].content, 300) \o "..."
            ELSE "Unable to assess.", 80)
    \o "\n\n**Key Recommendations:**\n"
    \o (IF Len(responses) > 0
        THEN NumberedFrom(Take(responses[1].recommendations, 4), 1) ELSE "")
    \o "\n\n**Important Note:**\n"
    \o "This is general wellness perspective. If symptoms persist, worsen, or are severe, please consult a healthcare provider.\n"

\* ResponseSynthesizer._synthesize_lifestyle_response
synthesize_lifestyle_response(responses, query) ==
    "\n## Lifestyle & Wellness Guidance\n\n**Your question:** " \o query
    \o "\n\n**Recommended Approach:**\n"
    \o Fill(IF Len(responses) > 0
            THEN Prefix(responses[1].content, 250) \o "..."
            ELSE "Unable to provide guidance.", 80)
    \o "\n\n**Action Items:**\n"
    \o (IF Len(responses) > 0
        THEN Bulleted(Take(responses[1].recommendations, 5)) ELSE "")
    \o "\n\n**Implementation Strategy:**\n"
    \o "Start with 1-2 recommendations that resonate most with you. Build momentum gradually.\n"

\* ResponseSynthesizer._synthesize_diet_response
synthesize_diet_response(responses, query) ==
    "\n## Nutrition & Diet Guidance\n\n**Your question:** " \o query
    \o "\n\n**Nutritional Perspective:**\n"
    \o Fill(IF Len(responses) > 0
            THEN Prefix(responses[1].content, 250) \o "..."
            ELSE "No nutrition guidance available.", 80)
    \o "\n\n**Food Suggestions:**\n"
    \o (IF Len(responses) > 0
        THEN Bulleted(Take(responses[1].recommendations, 5)) ELSE "")
    \o "\n\n**Dietary Note:**\n"
    \o "For specific medical dietary needs, consult a registered dietitian.\n"

\* ResponseSynthesizer._synthesize_fitness_response
synthesize_fitness_response(responses, query) ==
    "\n## Fitness & Exercise Guidance\n\n**Your question:** " \o query
    \o "\n\n**Exercise Recommendation:**\n"
    \o Fill(IF Len(responses) > 0
            THEN Prefix(responses[1].content, 250) \o "..."
            ELSE "No exercise guidance available.", 80)
    \o "\n\n**Suggested Activities:**\n"
    \o (IF Len(responses) > 0
        THEN Bulleted(Take(responses[1].recommendations, 5)) ELSE "")
    \o "\n\n**Safety Note:**\n"
    \o "Start gradually and listen to your body. Stop if you experience pain. Consult healthcare provider before starting new programs.\n"

\* the sections of the loop `for response in responses[:4]` of the general template
RECURSIVE GeneralSections(_)
GeneralSections(responses) ==
    IF Len(responses) = 0 THEN ""
    ELSE (IF Head(responses).confidence > 70
          THEN "\n\n**" \o Head(responses).agent_name \o ":**\n"
               \o Fill(Prefix(Head(responses).content, 200) \o "...", 80)
          ELSE "")
         \o GeneralSections(Tail(responses))

\* ResponseSynthesizer._synthesize_general_response
synthesize_general_response(responses, query) ==
    "\n## Comprehensive Wellness Perspective\n\n**Your question:** " \o query
    \o "\n\n**Multi-Dimensional Assessment:**\n"
    \o GeneralSections(Take(responses, 4))
    \o "\n\n**Integrated Recommendations:**\n"
    \o NumberedFrom(extract_unified_recommendations(responses, 6), 1)

\* the template of an intent
Template(intent, responses, query) ==
    IF intent = SYMPTOM THEN synthesize_symptom_response(responses, query)
    ELSE IF intent = LIFESTYLE THEN synthesize_lifestyle_response(responses, query)
    ELSE IF intent = DIET THEN synthesize_diet_response(responses, query)
    ELSE IF intent = FITNESS THEN synthesize_fitness_response(responses, query)
    ELSE synthesize_general_response(responses, query)

\* _synthesize_by_intent without the test for an empty list
synthesize_by_intent_NoFallback(intent, responses, query) ==
    Template(intent, responses, query)

\* ResponseSynthesizer._synthesize_by_intent
synthesize_by_intent(intent, responses, query) ==
    IF Len(responses) = 0 THEN get_fallback_guidance(intent)
    ELSE Template(intent, responses, query)

DISCLAIMER ==
    "This is educational wellness guidance, not medical advice. Consult healthcare professionals for medical concerns."

\* the list comprehension of synthesize_responses and its replacement when empty
valid_responses(agent_responses) ==
    LET valid == SelectSeq(agent_responses,
                           LAMBDA r : r.confidence >= min_confidence_threshold)
    IN  IF Len(valid) = 0 THEN agent_responses ELSE valid

\* synthesize_responses with the recommendations taken from every response
synthesize_responses_UnifyAll(user_id, query, intent, agent_responses) ==
    [user_id |-> user_id,
     query |-> query,
     intent |-> intent,
     agent_responses |-> valid_responses(agent_responses),
     synthesized_guidance |->
         synthesize_by_intent(intent, valid_responses(agent_responses), query),
     primary_recommendations |->
         extract_unified_recommendations(agent_responses, 7),
     disclaimer |-> DISCLAIMER]

\* ResponseSynthesizer.synthesize_responses
synthesize_responses(user_id, query, intent, agent_responses) ==
    [user_id |-> user_id,
     query |-> query,
     intent |-> intent,
     agent_responses |-> valid_responses(agent_responses),
     synthesized_guidance |->
         synthesize_by_intent(intent, valid_responses(agent_responses), query),
     primary_recommendations |->
         extract_unified_recommendations(valid_responses(agent_responses), 7),
     disclaimer |-> DISCLAIMER]

-----------------------------------------------------------------------------
(* Direct calls of the ResponseSynthesizer, one call in a behaviour *)

\* greatest length of the response lists handed to the synthesizer
MaxResults == 2

\* greatest limit handed to _extract_unified_recommendations
MaxLimit == 8

\* a content longer than every excerpt budget (300, 250, 200)
LONG_CONTENT ==
    "Fatigue has many causes and most of them are benign. Poor sleep, low fluid intake and stress are the common ones. Keep a regular bedtime, drink water through the day and take short breaks from the screen. Gentle movement in the morning helps many people. If tiredness stays for more than two weeks, a check by a doctor is a sensible next step to take."

\* a content longer than one line of 80 columns
MID_CONTENT ==
    "Regular routines lower stress: fix your waking time first, then add one calm evening habit at a time."

\* AgentResponse objects: confidences above, at and below the thresholds,
\* recommendations that repeat across responses in another case or with
\* another tail after the first 50 characters
SynthPool ==
    <<[agent_name |-> "Symptom Assessment", content |-> LONG_CONTENT,
       confidence |-> 85,
       recommendations |-> <<"Drink water", "Sleep 7 to 8 hours", "Short walks",
                             "Less caffeine", "Deep breathing">>],
      [agent_name |-> "Lifestyle Coach", content |-> MID_CONTENT,
       confidence |-> 68,
       recommendations |-> <<"DRINK WATER", "Fixed bedtime",
                             "Take a ten minute walk after every meal of the day, slowly",
                             "TAKE A TEN MINUTE WALK AFTER EVERY MEAL OF THE DAY, briskly">>],
      [agent_name |-> "Nutrition Guide", content |-> "Eat whole foods.",
       confidence |-> 60,
       recommendations |-> <<"Leafy greens", "drink water", "Oats and berries">>],
      [agent_name |-> "Fitness Coach", content |-> LLM_CONTENT,
       confidence |-> 65,
       recommendations |-> <<"Bodyweight squats", "Knee push ups", "Proper form first">>],
      [agent_name |-> "Lifestyle Coach", content |-> "Try to relax.",
       confidence |-> 40,
       recommendations |-> <<"Fixed Bedtime", "Evening stretch">>]>>

\* the lists of up to MaxResults different responses of the pool
PoolLists ==
    LET idx == UNION {[1..n -> 1..Len(SynthPool)] : n \in 0..MaxResults}
        inj == {f \in idx : \A i, j \in DOMAIN f : i # j => f[i] # f[j]}
    IN  {[i \in DOMAIN f |-> SynthPool[f[i]]] : f \in inj}

\* what execute_agent_query can return: for every intent, every way its
\* generator calls can settle
DispatchSurvivors ==
    LET settle(tasks) ==
            {f \in [1..Len(tasks) -> UNION {GeneratorOutcomes(g) : g \in Generators}] :
                \A i \in 1..Len(tasks) : f[i] \in GeneratorOutcomes(tasks[i].fn)}
    IN  UNION {{CollectResponses(f) : f \in settle(agent_tasks(intent))} :
                  intent \in IntentSet}

SynthResults == PoolLists \cup DispatchSurvivors

SynthQuery == "I feel tired and have a headache"

Limits == 0..MaxLimit

extract_unified_recommendations_of ==
    [responses \in SynthResults, limit \in Limits |->
        extract_unified_recommendations(responses, limit)]

synthesize_responses_of ==
    [intent \in IntentSet, agent_responses \in SynthResults |->
        synthesize_responses("u1", SynthQuery, intent, agent_responses)]

\* synthesizer._extract_unified_recommendations(responses, limit=limit)
Unify(responses, limit) ==
    /\ call.method = None
    /\ call' = [method |-> "_extract_unified_recommendations",
                responses |-> responses,
                limit |-> limit,
                ret |-> extract_unified_recommendations_of[responses, limit]]
    /\ UNCHANGED <<memory_store, requests, started, last_op, http, insert_log,
                   default_max_messages, conv>>

\* synthesizer.synthesize_responses(user_id, query, intent, agent_responses)
Synthesize(intent, agent_responses) ==
    /\ call.method = None
    /\ call' = [method |-> "synthesize_responses",
                user_id |-> "u1",
                query |-> SynthQuery,
                intent |-> intent,
                agent_responses |-> agent_responses,
                ret |-> synthesize_responses_of[intent, agent_responses]]
    /\ UNCHANGED <<memory_store, requests, started, last_op, http, insert_log,
                   default_max_messages, conv>>

NextSynth ==
    \E responses \in SynthResults :
        \/ \E limit \in Limits : Unify(responses, limit)
        \/ \E intent \in IntentSet : Synthesize(intent, responses)

SpecSynth == Init /\ [][NextSynth]_vars

-----------------------------------------------------------------------------
(* Properties of the ResponseSynthesizer *)

\* every recommendation text of the pool
PoolRecommendations ==
    UNION {{SynthPool[i].recommendations[j] :
               j \in 1..Len(SynthPool[i].recommendations)} : i \in 1..Len(SynthPool)}

\* the lowercase first-50-character prefix of each of them
PrefixKey == [rec \in PoolRecommendations |-> Prefix(Lower(rec), 50)]

\* the positions of a list of recommendations that hold the first occurrence
\* of their prefix
FirstOccurrences(flat) ==
    {i \in 1..Len(flat) :
        \A j \in 1..(i - 1) : PrefixKey[flat[j]] # PrefixKey[flat[i]]}

\* the walk over the recommendations that stops once limit items are collected
RECURSIVE EarlyStopWalk(_, _, _)
EarlyStopWalk(flat, kept, limit) ==
    IF Len(kept) >= limit \/ Len(flat) = 0 THEN kept
    ELSE IF \E k \in 1..Len(kept) : PrefixKey[kept[k]] = PrefixKey[Head(flat)]
         THEN EarlyStopWalk(Tail(flat), kept, limit)
         ELSE EarlyStopWalk(Tail(flat), Append(kept, Head(flat)), limit)

\* C12: for every sequence of results and every limit the list returned by
\* _extract_unified_recommendations has no two entries with the same
\* lowercase 50-character prefix and at most limit entries; its entries are
\* the first occurrences of their prefixes, in the order in which the walk
\* over the results and their recommendations meets them; and it is the list
\* of the walk that stops as soon as limit items are collected.
C12_UnifyDedupCapOrder ==
    call.method = "_extract_unified_recommendations"
      => LET flat == FlattenRecommendations(call.responses)
             first == FirstOccurrences(flat)
             ret == call.ret
             \* the position of the k-th first occurrence
             pos(k) == CHOOSE i \in first :
                           Cardinality({x \in first : x < i}) = k - 1
         IN  /\ \A i, j \in 1..Len(ret) :
                   i # j => PrefixKey[ret[i]] # PrefixKey[ret[j]]
             /\ Len(ret) <= call.limit
             /\ Len(ret) = IF Cardinality(first) < call.limit
                           THEN Cardinality(first) ELSE call.limit
             /\ \A k \in 1..Len(ret) : ret[k] = flat[pos(k)]
             /\ ret = EarlyStopWalk(flat, <<>>, call.limit)

\* C12 witness: a call over two results that repeat a recommendation in
\* another case and one with another tail after 50 characters, with a limit
\* below the number of different prefixes: the list is cut at the limit
C12_Witness ==
    /\ call.method = "_extract_unified_recommendations"
    /\ Len(call.responses) = 2
    /\ LET flat == FlattenRecommendations(call.responses)
           first == FirstOccurrences(flat)
       IN  /\ \E i, j \in 1..Len(flat) :
                 /\ i < j /\ flat[i] # flat[j] /\ Len(flat[i]) > 50
                 /\ PrefixKey[flat[i]] = PrefixKey[flat[j]]
           /\ \E i, j \in 1..Len(flat) :
                 /\ i < j /\ flat[i] # flat[j] /\ Len(flat[i]) < 50
                 /\ PrefixKey[flat[i]] = PrefixKey[flat[j]]
           /\ Cardinality(first) > call.limit
           /\ call.limit > 0
           /\ Len(call.ret) = call.limit

\* the results that reach the confidence threshold, in their original order,
\* or all of them when none does
UsedResults(agent_responses) ==
    LET high == {i \in 1..Len(agent_responses) : agent_responses[i].confidence >= 65}
        nth(k) == CHOOSE i \in high : Cardinality({x \in high : x < i}) = k - 1
    IN  IF high = {} THEN agent_responses
        ELSE [k \in 1..Cardinality(high) |-> agent_responses[nth(k)]]

\* C13: synthesize_responses returns as agent_responses exactly the results
\* with confidence >= 0.65 in their original order, or the whole sequence
\* when no result reaches 0.65; the document is the one made from that set,
\* and primary_recommendations is the unification (limit 7) of that same
\* set, whichever template the intent selects.
C13_SynthesisUsesFilteredSet ==
    call.method = "synthesize_responses"
      => LET used == UsedResults(call.agent_responses)
         IN  /\ call.ret.agent_responses = used
             /\ call.ret.synthesized_guidance =
                  (IF Len(used) = 0 THEN get_fallback_guidance(call.intent)
                   ELSE Template(call.intent, used, call.query))
             /\ call.ret.primary_recommendations =
                  EarlyStopWalk(FlattenRecommendations(used), <<>>, 7)

\* C13 witness: a call whose first result is below 0.65 and whose second is
\* above: the document and the recommendations are those of the second
\* alone and differ from what the unfiltered sequence would give
C13_Witness ==
    /\ call.method = "synthesize_responses"
    /\ call.intent = SYMPTOM
    /\ Len(call.agent_responses) = 2
    /\ call.agent_responses[1].confidence < 65
    /\ call.agent_responses[2].confidence >= 65
    /\ call.ret.agent_responses = <<call.agent_responses[2]>>
    /\ call.ret.primary_recommendations = call.agent_responses[2].recommendations
    /\ call.ret.synthesized_guidance #
         Template(call.intent, call.agent_responses, call.query)

\* C14: synthesize_responses returns a response for every list of results
\* that a dispatch can hand over; for a non-empty list the guidance is the
\* document of the intent's template, and for the empty list it is the
\* fallback sentence of the intent, word for word, with no primary
\* recommendations and no agent responses.
C14_SynthesisSucceedsFallbackWhenEmpty ==
    call.method = "synthesize_responses"
      => /\ DOMAIN call.ret =
              {"user_id", "query", "intent", "agent_responses",
               "synthesized_guidance", "primary_recommendations", "disclaimer"}
         /\ call.ret.intent = call.intent
         /\ call.ret.disclaimer = DISCLAIMER
         /\ IF Len(call.agent_responses) = 0
            THEN /\ call.ret.synthesized_guidance = get_fallback_guidance(call.intent)
                 /\ ~Contains(call.ret.synthesized_guidance, "\n")
                 /\ call.ret.primary_recommendations = <<>>
                 /\ call.ret.agent_responses = <<>>
            ELSE /\ call.ret.synthesized_guidance =
                      Template(call.intent, call.ret.agent_responses, call.query)
                 /\ Contains(call.ret.synthesized_guidance, "\n## ")
                 /\ Len(call.ret.agent_responses) > 0

\* C14 witness: a general dispatch none of whose four calls succeeded is
\* synthesized into the fallback sentence of general
C14_Witness ==
    /\ call.method = "synthesize_responses"
    /\ call.intent = GENERAL
    /\ call.agent_responses = <<>>
    /\ call.agent_responses \in DispatchSurvivors
    /\ call.ret.synthesized_guidance =
         "Unable to process your query. Please rephrase and try again."
    /\ call.ret.primary_recommendations = <<>>

-----------------------------------------------------------------------------
(* Direct calls of identify_intent and filter_intent_safety, one call in a *)
(* behaviour                                                               *)

\* pieces of query text: no keyword, keywords of one family, keywords shared
\* by two families, keywords inside longer words, upper case
QueryPieces ==
    {"vacation plans", "I feel tired", "HEADACHE and fever", "sleep and stress",
     "sore, sleep, stress", "what should I eat", "healthy meal", "gym workout",
     "breathing", "fitness"}

ClassifyQueries ==
    QueryPieces \cup {a \o " " \o b : a \in QueryPieces, b \in QueryPieces}

\* texts handed to the Safety Gate
GateQueries == HttpQueries \cup {"Pharmacy opening hours", "Loss Of Consciousness", ""}

classify_of == [q \in ClassifyQueries |-> identify_intent(q)]

gate_of == [i \in IntentSet, q \in GateQueries |-> filter_intent_safety(i, q)]

\* orchestrator.identify_intent(query)
IdentifyIntent(query) ==
    /\ call.method = None
    /\ call' = [method |-> "identify_intent", query |-> query,
                ret |-> classify_of[query]]
    /\ UNCHANGED <<memory_store, requests, started, last_op, http, insert_log,
                   default_max_messages, conv>>

\* orchestrator.filter_intent_safety(intent, query)
FilterIntentSafety(intent, query) ==
    /\ call.method = None
    /\ call' = [method |-> "filter_intent_safety", intent |-> intent,
                query |-> query, ret |-> gate_of[intent, query]]
    /\ UNCHANGED <<memory_store, requests, started, last_op, http, insert_log,
                   default_max_messages, conv>>

NextClassify ==
    \/ \E q \in ClassifyQueries : IdentifyIntent(q)
    \/ \E i \in IntentSet, q \in GateQueries : FilterIntentSafety(i, q)

SpecClassify == Init /\ [][NextClassify]_vars

\* the specific intents in declaration order
SpecificIntents == <<SYMPTOM, LIFESTYLE, DIET, FITNESS>>

\* does the word occur in the text?
Occurs(word, text) ==
    \E i \in 0..(Len(text) - Len(word)) : SubSeq(text, i + 1, i + Len(word)) = word

\* the reference classification: per intent the number of its keywords that
\* occur in the lowercased query; general when all are 0, else the
\* first-declared intent among those with the greatest number
ReferenceScore ==
    [q \in ClassifyQueries |->
        LET text == Lower(q)
        IN  [n \in 1..4 |->
                Cardinality({k \in 1..Len(intent_keywords[SpecificIntents[n]]) :
                                Occurs(intent_keywords[SpecificIntents[n]][k], text)})]]

ReferenceIntent ==
    [q \in ClassifyQueries |->
        LET score == ReferenceScore[q]
        IN  IF \A n \in 1..4 : score[n] = 0 THEN GENERAL
            ELSE SpecificIntents[CHOOSE n \in 1..4 :
                                    /\ \A m \in 1..4 : score[m] <= score[n]
                                    /\ \A m \in 1..(n - 1) : score[m] < score[n]]]

\* C15: identify_intent equals the reference for every query: a score per
\* specific intent counting each keyword that occurs in the lowercased
\* query once; general when every score is 0; otherwise the intent with the
\* greatest score, ties going to the first-declared one.  A query that
\* matches keywords of exactly one intent returns that intent.
C15_ClassifyEqualsReference ==
    call.method = "identify_intent"
      => LET score == ReferenceScore[call.query]
         IN  /\ call.ret = ReferenceIntent[call.query]
             /\ (\A n \in 1..4 : score[n] = 0) => call.ret = GENERAL
             /\ \A n \in 1..4 :
                   (score[n] > 0 /\ \A m \in 1..4 : m # n => score[m] = 0)
                     => call.ret = SpecificIntents[n]

\* C15 witness: a query in which two intents tie at the greatest score and
\* an intent declared before both has a smaller score above 0: the answer is
\* the first-declared of the two that tie
C15_Witness ==
    /\ call.method = "identify_intent"
    /\ LET score == ReferenceScore[call.query]
       IN  \E a, b, c \in 1..4 :
              /\ a < b /\ b < c
              /\ score[a] > 0 /\ score[a] < score[b]
              /\ score[b] = score[c]
              /\ \A m \in 1..4 : score[m] <= score[b]
              /\ call.ret = SpecificIntents[b]

\* C16: filter_intent_safety returns is_safe = false with the fixed
\* emergency message exactly when the intent is symptom and the lowercased
\* text contains a phrase of the critical-symptom list; for every other
\* intent it returns is_safe = true with an empty warning whatever the text.
C16_GateUnsafeIffSymptomAndPhrase ==
    call.method = "filter_intent_safety"
      => LET phrase == \E k \in 1..Len(critical_symptoms) :
                          Occurs(critical_symptoms[k], Lower(call.query))
         IN  /\ call.ret.is_safe = ~(call.intent = SYMPTOM /\ phrase)
             /\ call.ret.warning = IF call.ret.is_safe THEN "" ELSE CRITICAL_WARNING
             /\ call.intent # SYMPTOM
                  => call.ret.is_safe /\ call.ret.warning = ""

\* C16 witness: a text with a critical phrase checked under the intent diet
\* is reported safe with an empty warning
C16_Witness ==
    /\ call.method = "filter_intent_safety"
    /\ call.intent = DIET
    /\ call.query = "difficulty breathing at night"
    /\ Occurs("difficulty breathing", Lower(call.query))
    /\ call.ret = [is_safe |-> TRUE, warning |-> ""]

-----------------------------------------------------------------------------
(* The pipeline with ConversationMemory.max_messages at its default of the *)
(* source, one request at a time, while the caller also stores assistant   *)
(* replies through MemoryManager.add_assistant_message.                    *)

\* max_messages: int = 20
DEFAULT_MAX_MESSAGES == 20

\* requests received plus assistant replies stored in a behaviour
MaxContextEvents == 7

ContextQueries == {"help me sleep better", "plan a gym workout"}

\* the caller stores an assistant reply for a user
StoreReply(u, m) ==
    /\ started + last_op.n < MaxContextEvents
    /\ memory_store' = add_assistant_message(memory_store, u, m)
    /\ insert_log' = LogAfter(insert_log, memory_store, memory_store')
    /\ last_op' = [op |-> "add_assistant_message", user_id |-> u, ret |-> None,
                   n |-> last_op.n + 1]
    /\ UNCHANGED <<aux, requests, started, http>>

NextContext ==
    \/ RequestStep(1, Users, ContextQueries, {None},
                   MaxContextEvents - last_op.n, {"succeeded"})
    \/ \E u \in Users, m \in StoreMessages : StoreReply(u, m)

SpecContext == InitWith(DEFAULT_MAX_MESSAGES) /\ [][NextContext]_vars

\* the lines "<role>: <content>" of the entries from..Len(log) of a log,
\* separated by newlines
RECURSIVE ContextLines(_, _)
ContextLines(log, from) ==
    IF from > Len(log) THEN ""
    ELSE log[from].role \o ": " \o log[from].content
         \o (IF from < Len(log) THEN "\n" ELSE "")
         \o ContextLines(log, from + 1)

\* the context made of the last 5 entries of a log, oldest of them first
LastFiveContext(log) ==
    ContextLines(log, IF Len(log) > 5 THEN Len(log) - 4 ELSE 1)

\* C17: the context that a request hands to its generators is made, at the
\* step that dispatches it, of the last 5 messages stored for its user just
\* before that step, oldest first, one "<role>: <content>" line each joined
\* by newlines ("" when the user has no stored message); the step stores no
\* message, so the request's own query is not in its context, and the
\* context stays what it was for as long as the request is in flight.
C17_ContextIsLastFiveAtDispatch ==
    [][\A r \in ReqIds :
          /\ (requests[r].pc = "received" /\ requests'[r].pc = "dispatched")
               => LET u == requests[r].user_id
                  IN  /\ requests'[r].context =
                           LastFiveContext(MessagesOf(memory_store, u))
                      /\ MessagesOf(memory_store', u) = MessagesOf(memory_store, u)
                      /\ Len(requests'[r].tasks) > 0
          /\ (requests[r].pc = "dispatched" /\ requests'[r].pc # "idle")
               => requests'[r].context = requests[r].context]_vars

\* C17 witness: a request is in flight for a user who had more than 5
\* stored messages of both roles at dispatch: its context is the last 5
\* lines and not the whole log
C17_Witness ==
    \E r \in ReqIds :
        /\ requests[r].pc = "dispatched"
        /\ LET log == MessagesOf(memory_store, requests[r].user_id)
           IN  /\ Len(log) > 5
               /\ requests[r].context = LastFiveContext(log)
               /\ requests[r].context # ContextLines(log, 1)
               /\ \E i, j \in (Len(log) - 4)..Len(log) :
                     log[i].role = "user" /\ log[j].role = "assistant"
                       /\ log[i].content # requests[r].query

-----------------------------------------------------------------------------
(* Progress of the pipeline.  The event loop runs every coroutine that is  *)
(* ready (Begin, Collect); that a launched generator call settles is the   *)
(* assumption under which the claim is made.  Nothing obliges a caller to  *)
(* send a request or to take a result.                                     *)

\* requests received in a behaviour of SpecLive
MaxLiveRequests == 2

\* the first coroutine serves requests that fan out to all four generators,
\* the second requests that end in the emergency response or go to one
\* generator
LiveQueries ==
    <<{"tell me about vacations"},
      {"I have chest pain", "I feel tired and have a headache"}>>

NextLive ==
    \E r \in ReqIds :
        RequestStep(r, {"u1"}, LiveQueries[r], {None}, MaxLiveRequests, ConcurrentKinds)

Fairness ==
    \A r \in ReqIds :
        /\ WF_vars(Begin(r))
        /\ WF_vars(\E i \in 1..4 : GenSettle(r, i, ConcurrentKinds))
        /\ WF_vars(Collect(r))

SpecLive == Init /\ [][NextLive]_vars /\ Fairness

\* C18: every request that has been received reaches a terminal state, the
\* emergency response or the returned result of the safe path, provided
\* every generator call that was launched settles; the emergency response is
\* reached in one step with no generator call launched, and a request in
\* flight never goes back: no call is launched again and the request leaves
\* "dispatched" only by returning.
C18_EveryRequestTerminates ==
    /\ \A r \in ReqIds :
          (requests[r].pc = "received")
              ~> (requests[r].pc \in {"emergency", "returned"})
    /\ [][\A r \in ReqIds :
            /\ requests'[r].pc = "emergency" /\ requests[r].pc # "emergency"
                 => requests[r].pc = "received" /\ Len(requests'[r].tasks) = 0
            /\ requests[r].pc = "dispatched"
                 => /\ requests'[r].pc \in {"dispatched", "returned"}
                    /\ \A i \in 1..Len(requests[r].tasks) :
                          requests'[r].tasks[i].fn = requests[r].tasks[i].fn
                    /\ Len(requests'[r].tasks) = Len(requests[r].tasks)
            /\ requests[r].pc \in {"emergency", "returned"}
                 => requests'[r].pc \in {requests[r].pc, "idle"}]_vars

\* C18 witness: a general request has returned although one of its four
\* calls raised, while the other request ended in the emergency response
C18_Witness ==
    \E r \in ReqIds, r2 \in ReqIds :
        /\ requests[r].pc = "returned"
        /\ Len(requests[r].tasks) = 4
        /\ \E i \in 1..4 : requests[r].tasks[i].type = "exception"
        /\ requests[r2].pc = "emergency"

-----------------------------------------------------------------------------
(* Frame of the read operations of the Memory Store *)

\* C19: get_memory_stats and get_conversation_context leave the store
\* unchanged: a call of either, for any user_id, adds no entry, evicts no
\* entry and alters no conversation memory.
C19_ReadsLeaveStoreUnchanged ==
    [][(/\ last_op'.n = last_op.n + 1
        /\ last_op'.op \in {"get_memory_stats", "get_conversation_context"})
          => memory_store' = memory_store]_vars

-----------------------------------------------------------------------------
(* Two requests of one user in flight together *)

UserEntry(rq) == [role |-> "user", content |-> rq.query]

\* C20: when two requests of one user are in flight together, neither
\* append is lost.  The request that completes appends its query at the end
\* of the user's log and keeps every entry that was there, the other
\* request's included; no other step of a request changes the log.  Once
\* both have returned, having been given the same context, the log is what
\* that context showed followed by the two queries, once each, the one that
\* completed first before the other.  (No entry is cleared or evicted in
\* these behaviours, and the log stays within max_messages.)
C20_ConcurrentAppendsBothKept ==
    /\ [](\A r, r2 \in ReqIds :
            (/\ r # r2
             /\ requests[r].pc = "returned" /\ requests[r2].pc = "returned"
             /\ requests[r].user_id = requests[r2].user_id
             /\ requests[r].context = requests[r2].context
             /\ started <= max_messages)
              => LET log == MessagesOf(memory_store, requests[r].user_id)
                     n == Len(log)
                 IN  /\ n >= 2
                     /\ \/ <<log[n - 1], log[n]>> =
                             <<UserEntry(requests[r]), UserEntry(requests[r2])>>
                        \/ <<log[n - 1], log[n]>> =
                             <<UserEntry(requests[r2]), UserEntry(requests[r])>>
                     /\ LastFiveContext(SubSeq(log, 1, n - 2)) = requests[r].context)
    /\ [][\A r, r2 \in ReqIds :
            (/\ r # r2
             /\ requests[r].pc = "dispatched"
             /\ requests[r2].pc \in {"dispatched", "returned"}
             /\ requests[r].user_id = requests[r2].user_id
             /\ started <= max_messages)
              => LET u == requests[r].user_id
                     log == MessagesOf(memory_store, u)
                 IN  IF requests'[r].pc = "returned"
                     THEN /\ MessagesOf(memory_store', u) =
                               Append(log, UserEntry(requests[r]))
                          /\ (requests[r2].pc = "returned"
                                /\ requests[r2].context = requests[r].context)
                               => log[Len(log)] = UserEntry(requests[r2])
                     ELSE requests'[r2].pc # "returned"
                            => MessagesOf(memory_store', u) = log]_vars

\* C20 witness: two requests of one user with different queries have both
\* returned; both were given the empty context, and the log holds the two
\* queries, the one of the second slot first
C20_Witness ==
    /\ requests[1].pc = "returned" /\ requests[2].pc = "returned"
    /\ requests[1].user_id = requests[2].user_id
    /\ requests[1].query # requests[2].query
    /\ requests[1].context = "" /\ requests[2].context = ""
    /\ MessagesOf(memory_store, requests[1].user_id) =
         <<UserEntry(requests[2]), UserEntry(requests[1])>>

-----------------------------------------------------------------------------
(* Intent of every response *)

\* C21: the intent field of every response is a member of the closed
\* enumeration {symptom, lifestyle, diet, fitness, general}: the response a
\* handler has returned over HTTP, and the result process_wellness_query has
\* returned on its emergency path and on its normal path.  (The pre-check of
\* agents/main.py answers with intent "emergency".)
C21_ResponseIntentInEnumeration ==
    /\ http.handler # None => http.response.intent \in IntentSet
    /\ \A r \in ReqIds :
          requests[r].pc \in {"emergency", "returned"}
            => requests[r].result.intent \in IntentSet

====
